---- MODULE Spec2Model ----
(***************************************************************************)
(* EnrollmentMonitor.parse_log_file and detect_log_format                  *)
(* (src/enrollment_monitor.py), with the two callers of parse_log_file     *)
(* (generate_dashboard and CombinedDashboard.generate_combined_dashboard). *)
(* update_monitor.py and the deploy_monitor.py it runs are a second state   *)
(* machine on variables of their own (SpecUpdate).                         *)
(*                                                                         *)
(* A text is a sequence of characters, one one-character string each;      *)
(* U+2713 and U+2717 are the check mark and the ballot cross.  Substring   *)
(* tests, str.lower, str.strip and the regular expressions of the parser   *)
(* are computed on these sequences.  A log file is a sequence of keys of   *)
(* Text, the lines it consists of, each ending in a newline as readlines() *)
(* returns them.                                                           *)
(***************************************************************************)
EXTENDS Integers, Sequences, FiniteSets, TLC

VARIABLES
  file_state,     \* "ok", "missing" (stat raises) or "unreadable" (open raises)
  pc,             \* "start", "parse", "loop", "done"
  lines,          \* lines = f.readlines(), as keys of Text
  i,              \* number of lines the for loop has processed
  metrics,        \* the metrics dict
  current_batch,  \* the in-flight batch, or None
  result,         \* "none", "snapshot" (metrics returned) or "failure" (False)
  argv,           \* sys.argv[1:] of update_monitor.py
  upc,            \* where update_monitor.py, or the script it runs, stands
  stdout,         \* what update_monitor.py has printed
  captured,       \* what the script it runs has printed (capture_output=True)
  success,        \* what setup_github_repo or update_and_push returned, "True" or
                  \* "False", or "none"
  child_exit,     \* the exit status of the script it runs, or "none"
  exit_status     \* the exit status of update_monitor.py, or "none"

\* the variables of the dashboard generation and those of the update scripts
pvars == <<file_state, pc, lines, i, metrics, current_batch, result>>

uvars == <<argv, upc, stdout, captured, success, child_exit, exit_status>>

vars == <<pvars, uvars>>

(***************************************************************************)
(* Bounds of the model.                                                    *)
(***************************************************************************)
MaxLen == 3
MaxPad == 51
MaxTail == 1
MaxRecentPad == 30
MaxGap == 4
MaxLookTail == 2

(***************************************************************************)
(* Characters and strings.                                                 *)
(***************************************************************************)
UpperCase ==
  <<"A", "B", "C", "D", "E", "F", "G", "H", "I", "J", "K", "L", "M",
    "N", "O", "P", "Q", "R", "S", "T", "U", "V", "W", "X", "Y", "Z">>

LowerCase ==
  <<"a", "b", "c", "d", "e", "f", "g", "h", "i", "j", "k", "l", "m",
    "n", "o", "p", "q", "r", "s", "t", "u", "v", "w", "x", "y", "z">>

Digit == <<"0", "1", "2", "3", "4", "5", "6", "7", "8", "9">>

Whitespace == {" ", "\n"}

lower_char(c) ==
  IF \E k \in 1..26 : UpperCase[k] = c
    THEN LowerCase[CHOOSE k \in 1..26 : UpperCase[k] = c]
    ELSE c

\* str.lower()
lower(s) == [k \in 1..Len(s) |-> lower_char(s[k])]

\* s[a-1:].startswith(p), positions counted from 1
startswith(s, a, p) ==
  /\ a >= 1
  /\ a + Len(p) - 1 <= Len(s)
  /\ \A k \in 1..Len(p) : s[a + k - 1] = p[k]

\* p in s
In(p, s) == \E a \in 1..(Len(s) - Len(p) + 1) : startswith(s, a, p)

isdigit(c) == \E d \in 1..10 : Digit[d] = c

digit_value(c) == (CHOOSE d \in 1..10 : Digit[d] = c) - 1

\* the last position of the longest run of digits that starts at a (a - 1 if none): \d*
RECURSIVE digits_end(_, _)
digits_end(s, a) ==
  IF a >= 1 /\ a <= Len(s) /\ isdigit(s[a]) THEN digits_end(s, a + 1) ELSE a - 1

\* the last position of the longest run of commas that starts at a (a - 1 if none): [,]*
RECURSIVE commas_end(_, _)
commas_end(s, a) ==
  IF a >= 1 /\ a <= Len(s) /\ s[a] = "," THEN commas_end(s, a + 1) ELSE a - 1

\* int(s[a-1:b]) of a run of digits
RECURSIVE int(_, _, _)
int(s, a, b) ==
  IF b < a THEN 0 ELSE int(s, a, b - 1) * 10 + digit_value(s[b])

\* str.strip(): without the leading and trailing whitespace
RECURSIVE lstrip(_)
lstrip(s) ==
  IF s # <<>> /\ Head(s) \in Whitespace THEN lstrip(Tail(s)) ELSE s

RECURSIVE rstrip(_)
rstrip(s) ==
  IF s # <<>> /\ s[Len(s)] \in Whitespace THEN rstrip(SubSeq(s, 1, Len(s) - 1)) ELSE s

strip(s) == rstrip(lstrip(s))

Min(S) == CHOOSE x \in S : \A y \in S : x <= y

Max(S) == CHOOSE x \in S : \A y \in S : x >= y

(***************************************************************************)
(* The string literals of detect_log_format and parse_log_file.            *)
(***************************************************************************)
Pat ==
  [ resolved |-> <<"r", "e", "s", "o", "l", "v", "e", "d">>
  , users |-> <<"u", "s", "e", "r", "s">>
  , courses |-> <<"c", "o", "u", "r", "s", "e", "s">>
  , prepared |-> <<"p", "r", "e", "p", "a", "r", "e", "d">>
  , enrollments |-> <<"e", "n", "r", "o", "l", "l", "m", "e", "n", "t", "s">>
  , enrolments |-> <<"e", "n", "r", "o", "l", "m", "e", "n", "t", "s">>
  , push_complete |-> <<"p", "u", "s", "h", " ", "c", "o", "m", "p", "l", "e", "t", "e", ":">>
  , batch |-> <<"b", "a", "t", "c", "h">>
  , enrollment_complete |-> <<"e", "n", "r", "o", "l", "l", "m", "e", "n", "t", " ", "c", "o", "m", "p", "l", "e", "t", "e">>
  , enrollment_complete_colon |-> <<"e", "n", "r", "o", "l", "l", "m", "e", "n", "t", " ", "c", "o", "m", "p", "l", "e", "t", "e", ":">>
  , successful_colon |-> <<"s", "u", "c", "c", "e", "s", "s", "f", "u", "l", ":">>
  , failed_colon |-> <<"f", "a", "i", "l", "e", "d", ":">>
  , total_enrollments |-> <<"t", "o", "t", "a", "l", " ", "e", "n", "r", "o", "l", "l", "m", "e", "n", "t", "s", ":">>
  , unique_users |-> <<"u", "n", "i", "q", "u", "e", " ", "u", "s", "e", "r", "s", ":">>
  , unique_courses |-> <<"u", "n", "i", "q", "u", "e", " ", "c", "o", "u", "r", "s", "e", "s", ":">>
  , success |-> <<"s", "u", "c", "c", "e", "s", "s">>
  , fail |-> <<"f", "a", "i", "l">>
  , failed |-> <<"f", "a", "i", "l", "e", "d">>
  , api_call |-> <<"a", "p", "i", " ", "c", "a", "l", "l">>
  , course |-> <<"c", "o", "u", "r", "s", "e">>
  , SEM |-> <<"_", "S", "E", "M">>
  , check |-> <<"U+2713">>
  , cross |-> <<"U+2717">>
  , re_Resolved |-> <<"R", "e", "s", "o", "l", "v", "e", "d", " ">>
  , re_slash |-> <<"/">>
  , re_users |-> <<" ", "u", "s", "e", "r", "s">>
  , re_courses |-> <<" ", "c", "o", "u", "r", "s", "e", "s">>
  , re_Prepared |-> <<"P", "r", "e", "p", "a", "r", "e", "d", " ">>
  , re_paren |-> <<"(">>
  , re_skipped |-> <<" ", "s", "k", "i", "p", "p", "e", "d", ")">>
  , re_successful |-> <<"s", "u", "c", "c", "e", "s", "s", "f", "u", "l", ":", " ">>
  , re_failed_colon |-> <<"f", "a", "i", "l", "e", "d", ":", " ">>
  , re_Total |-> <<"T", "o", "t", "a", "l", " ", "e", "n", "r", "o", "l", "l", "m", "e", "n", "t", "s", ":", " ">>
  , re_Unique_users |-> <<"U", "n", "i", "q", "u", "e", " ", "u", "s", "e", "r", "s", ":", " ">>
  , re_Unique_courses |-> <<"U", "n", "i", "q", "u", "e", " ", "c", "o", "u", "r", "s", "e", "s", ":", " ">>
  , re_Batch |-> <<"B", "a", "t", "c", "h", " ">>
  , re_colon |-> <<":", " ">>
  , re_enrollments |-> <<" ", "e", "n", "r", "o", "l", "l", "m", "e", "n", "t", "s">>
  , re_success_comma |-> <<" ", "s", "u", "c", "c", "e", "s", "s", ",", " ">>
  , re_failed |-> <<" ", "f", "a", "i", "l", "e", "d">>
  , re_enrollments_paren |-> <<" ", "e", "n", "r", "o", "l", "l", "m", "e", "n", "t", "s", " ", "(">>
  , space |-> <<" ">>
  ]

(***************************************************************************)
(* faculty_codes, in the order of the dict.                                *)
(***************************************************************************)
faculty_codes ==
  <<
    [code |-> "ANLA", chars |-> <<"A", "N", "L", "A">>, faculty |-> "Faculty of Arts and Design"],
    [code |-> "RSMH", chars |-> <<"R", "S", "M", "H">>, faculty |-> "Faculty of Applied Sciences"],
    [code |-> "AOMT", chars |-> <<"A", "O", "M", "T">>, faculty |-> "Faculty of Management Sciences"],
    [code |-> "CSTN", chars |-> <<"C", "S", "T", "N">>, faculty |-> "Faculty of Accounting and Informatics"],
    [code |-> "RERE", chars |-> <<"R", "E", "R", "E">>, faculty |-> "Faculty of Applied Sciences"],
    [code |-> "RSPM", chars |-> <<"R", "S", "P", "M">>, faculty |-> "Faculty of Management Sciences"],
    [code |-> "APEM", chars |-> <<"A", "P", "E", "M">>, faculty |-> "Faculty of Management Sciences"],
    [code |-> "ARMP", chars |-> <<"A", "R", "M", "P">>, faculty |-> "Faculty of Management Sciences"],
    [code |-> "PMIR", chars |-> <<"P", "M", "I", "R">>, faculty |-> "Faculty of Management Sciences"],
    [code |-> "ADFM", chars |-> <<"A", "D", "F", "M">>, faculty |-> "Faculty of Accounting and Informatics"],
    [code |-> "FNLT", chars |-> <<"F", "N", "L", "T">>, faculty |-> "Faculty of Applied Sciences"],
    [code |-> "CAAU", chars |-> <<"C", "A", "A", "U">>, faculty |-> "Faculty of Accounting and Informatics"],
    [code |-> "BSNC", chars |-> <<"B", "S", "N", "C">>, faculty |-> "Faculty of Applied Sciences"],
    [code |-> "BNMN", chars |-> <<"B", "N", "M", "N">>, faculty |-> "Faculty of Management Sciences"],
    [code |-> "SHPM", chars |-> <<"S", "H", "P", "M">>, faculty |-> "Faculty of Management Sciences"],
    [code |-> "IMIC", chars |-> <<"I", "M", "I", "C">>, faculty |-> "Faculty of Applied Sciences"],
    [code |-> "TRMP", chars |-> <<"T", "R", "M", "P">>, faculty |-> "Faculty of Engineering and the Built Environment"],
    [code |-> "WWRK", chars |-> <<"W", "W", "R", "K">>, faculty |-> "Faculty of Engineering and the Built Environment"],
    [code |-> "CMEP", chars |-> <<"C", "M", "E", "P">>, faculty |-> "Faculty of Engineering and the Built Environment"],
    [code |-> "REMA", chars |-> <<"R", "E", "M", "A">>, faculty |-> "Faculty of Management Sciences"],
    [code |-> "TAXB", chars |-> <<"T", "A", "X", "B">>, faculty |-> "Faculty of Accounting and Informatics"],
    [code |-> "CCHB", chars |-> <<"C", "C", "H", "B">>, faculty |-> "Faculty of Applied Sciences"],
    [code |-> "PBLF", chars |-> <<"P", "B", "L", "F">>, faculty |-> "Faculty of Management Sciences"],
    [code |-> "TIPP", chars |-> <<"T", "I", "P", "P">>, faculty |-> "Faculty of Management Sciences"],
    [code |-> "CADR", chars |-> <<"C", "A", "D", "R">>, faculty |-> "Faculty of Arts and Design"],
    [code |-> "HYSA", chars |-> <<"H", "Y", "S", "A">>, faculty |-> "Faculty of Applied Sciences"],
    [code |-> "LABR", chars |-> <<"L", "A", "B", "R">>, faculty |-> "Faculty of Applied Sciences"],
    [code |-> "IMAE", chars |-> <<"I", "M", "A", "E">>, faculty |-> "Faculty of Applied Sciences"],
    [code |-> "FSTX", chars |-> <<"F", "S", "T", "X">>, faculty |-> "Faculty of Applied Sciences"],
    [code |-> "FPSO", chars |-> <<"F", "P", "S", "O">>, faculty |-> "Faculty of Applied Sciences"],
    [code |-> "FDPD", chars |-> <<"F", "D", "P", "D">>, faculty |-> "Faculty of Applied Sciences"]
  >>

(***************************************************************************)
(* The lines log files are made of.                                        *)
(***************************************************************************)
Text ==
  [ resolved_users |->
      <<"R", "e", "s", "o", "l", "v", "e", "d", " ", "8", "/", "1", "0", " ", "u", "s", "e", "r", "s", "\n">>
  , resolved_courses |->
      <<"R", "e", "s", "o", "l", "v", "e", "d", " ", "5", "/", "5", " ", "c", "o", "u", "r", "s", "e", "s", "\n">>
  , resolved_courses_3_4 |->
      <<"R", "e", "s", "o", "l", "v", "e", "d", " ", "3", "/", "4", " ", "c", "o", "u", "r", "s", "e", "s", "\n">>
  , prepared |->
      <<"P", "r", "e", "p", "a", "r", "e", "d", " ", "1", "0", "0", " ", "e", "n", "r", "o", "l", "l", "m", "e", "n", "t", "s", " ", "(", "2", " ", "s", "k", "i", "p", "p", "e", "d", ")", "\n">>
  , prepared_commas |->
      <<"P", "r", "e", "p", "a", "r", "e", "d", " ", "1", ",", "2", "3", "4", " ", "e", "n", "r", "o", "l", "l", "m", "e", "n", "t", "s", " ", "(", "1", ",", "0", "0", "0", " ", "s", "k", "i", "p", "p", "e", "d", ")", "\n">>
  , complete_dot |->
      <<"E", "n", "r", "o", "l", "l", "m", "e", "n", "t", " ", "c", "o", "m", "p", "l", "e", "t", "e", ".", "\n">>
  , counts_title |->
      <<"S", "u", "c", "c", "e", "s", "s", "f", "u", "l", ":", " ", "9", "8", " ", "F", "a", "i", "l", "e", "d", ":", " ", "0", "\n">>
  , counts_lower |->
      <<"s", "u", "c", "c", "e", "s", "s", "f", "u", "l", ":", " ", "9", "8", " ", "f", "a", "i", "l", "e", "d", ":", " ", "0", "\n">>
  , batch1_10 |->
      <<"B", "a", "t", "c", "h", " ", "1", ":", " ", "1", "0", " ", "e", "n", "r", "o", "l", "l", "m", "e", "n", "t", "s", "\n">>
  , batch1_3 |->
      <<"B", "a", "t", "c", "h", " ", "1", ":", " ", "3", " ", "e", "n", "r", "o", "l", "l", "m", "e", "n", "t", "s", "\n">>
  , batch2_5 |->
      <<"B", "a", "t", "c", "h", " ", "2", ":", " ", "5", " ", "e", "n", "r", "o", "l", "l", "m", "e", "n", "t", "s", "\n">>
  , batch1_ok |->
      <<"B", "a", "t", "c", "h", " ", "1", " ", "s", "u", "c", "c", "e", "s", "s", " ", "U+2713", "\n">>
  , batch2_failed |->
      <<"B", "a", "t", "c", "h", " ", "2", " ", "f", "a", "i", "l", "e", "d", " ", "U+2717", "\n">>
  , total5 |->
      <<"T", "o", "t", "a", "l", " ", "e", "n", "r", "o", "l", "l", "m", "e", "n", "t", "s", ":", " ", "5", "\n">>
  , unique_users |->
      <<"U", "n", "i", "q", "u", "e", " ", "u", "s", "e", "r", "s", ":", " ", "7", "\n">>
  , unique_courses |->
      <<"U", "n", "i", "q", "u", "e", " ", "c", "o", "u", "r", "s", "e", "s", ":", " ", "4", "\n">>
  , summary_0_0 |->
      <<"E", "n", "r", "o", "l", "l", "m", "e", "n", "t", " ", "c", "o", "m", "p", "l", "e", "t", "e", ":", " ", "0", " ", "s", "u", "c", "c", "e", "s", "s", ",", " ", "0", " ", "f", "a", "i", "l", "e", "d", "\n">>
  , summary_9_1 |->
      <<"E", "n", "r", "o", "l", "l", "m", "e", "n", "t", " ", "c", "o", "m", "p", "l", "e", "t", "e", ":", " ", "9", " ", "s", "u", "c", "c", "e", "s", "s", ",", " ", "1", " ", "f", "a", "i", "l", "e", "d", "\n">>
  , api_failed |->
      <<"A", "P", "I", " ", "c", "a", "l", "l", " ", "f", "a", "i", "l", "e", "d", "\n">>
  , push_complete |->
      <<"P", "u", "s", "h", " ", "c", "o", "m", "p", "l", "e", "t", "e", ":", " ", "3", " ", "s", "u", "c", "c", "e", "s", "s", "f", "u", "l", ",", " ", "1", " ", "f", "a", "i", "l", "e", "d", "\n">>
  , enrolments |->
      <<"S", "t", "a", "r", "t", "i", "n", "g", " ", "b", "a", "t", "c", "h", " ", "e", "n", "r", "o", "l", "m", "e", "n", "t", "s", "\n">>
  , code_anla |->
      <<"E", "n", "r", "o", "l", "l", "e", "d", " ", "A", "N", "L", "A", "1", "0", "1", "_", "S", "E", "M", "1", "\n">>
  , code_two |->
      <<"A", "N", "L", "A", "1", "_", "S", "E", "M", "1", " ", "C", "A", "D", "R", "2", "_", "S", "E", "M", "1", "\n">>
  , code_course |->
      <<"c", "o", "u", "r", "s", "e", " ", "R", "S", "M", "H", "\n">>
  , code_noguard |->
      <<"A", "N", "L", "A", " ", "o", "n", "l", "y", "\n">>
  , filler |->
      <<"o", "k", "\n">>
  , blank |->
      <<"\n">>
  , resolved_users_10_8 |->
      <<"R", "e", "s", "o", "l", "v", "e", "d", " ", "1", "0", "/", "8", " ", "u", "s", "e", "r", "s", "\n">>
  , counts_na |->
      <<"s", "u", "c", "c", "e", "s", "s", "f", "u", "l", ":", " ", "n", "/", "a", " ", "f", "a", "i", "l", "e", "d", ":", " ", "0", "\n">>
  , api_batch |->
      <<"A", "P", "I", " ", "c", "a", "l", "l", " ", "f", "a", "i", "l", "e", "d", " ", "f", "o", "r", " ", "b", "a", "t", "c", "h", " ", "3", "\n">>
  , batch_guard_only |->
      <<"S", "t", "a", "r", "t", "i", "n", "g", " ", "b", "a", "t", "c", "h", " ", "e", "n", "r", "o", "l", "l", "m", "e", "n", "t", "s", "\n">>
  , batch_both |->
      <<"B", "a", "t", "c", "h", " ", "2", " ", "u", "n", "s", "u", "c", "c", "e", "s", "s", "f", "u", "l", ",", " ", "f", "a", "i", "l", "e", "d", " ", "U+2717", "\n">>
  , batch_open_ok |->
      <<"B", "a", "t", "c", "h", " ", "3", ":", " ", "4", " ", "e", "n", "r", "o", "l", "l", "m", "e", "n", "t", "s", " ", "s", "u", "c", "c", "e", "s", "s", " ", "U+2713", "\n">>
  , indented |->
      <<" ", " ", "I", "N", "F", "O", " ", "s", "t", "a", "r", "t", "\n">>
  ]

LineIds == DOMAIN Text

(***************************************************************************)
(* The regular expressions.  A search returns the captured groups the      *)
(* parser reads, as integers, or <<>> when re.search returns None.         *)
(***************************************************************************)
\* pre(\d+)mid(\d+)post matched at position a
match_two_at(s, a, pre, mid, post) ==
  LET b1 == a + Len(pre)
      e1 == digits_end(s, b1)
      b2 == e1 + 1 + Len(mid)
      e2 == digits_end(s, b2)
  IN  IF /\ startswith(s, a, pre)
         /\ e1 >= b1
         /\ startswith(s, e1 + 1, mid)
         /\ e2 >= b2
         /\ startswith(s, e2 + 1, post)
        THEN <<int(s, b1, e1), int(s, b2, e2)>>
        ELSE <<>>

\* re.search(r'pre(\d+)mid(\d+)post', s): the leftmost match
search_two(s, pre, mid, post) ==
  LET starts == {a \in 1..Len(s) : match_two_at(s, a, pre, mid, post) # <<>>}
  IN  IF starts = {} THEN <<>> ELSE match_two_at(s, Min(starts), pre, mid, post)

\* re.search(r'pre(\d+)', s)
search_one(s, pre) ==
  LET starts == {a \in 1..Len(s) :
                   startswith(s, a, pre) /\ digits_end(s, a + Len(pre)) >= a + Len(pre)}
      b == Min(starts) + Len(pre)
  IN  IF starts = {} THEN <<>> ELSE <<int(s, b, digits_end(s, b))>>

\* re.search(r'Resolved (\d+)/(\d+) users', line)
re_resolved_users(s) == search_two(s, Pat.re_Resolved, Pat.re_slash, Pat.re_users)

\* re.search(r'Resolved (\d+)/(\d+) courses', line)
re_resolved_courses(s) == search_two(s, Pat.re_Resolved, Pat.re_slash, Pat.re_courses)

\* \((\d+)[,]*(\d*) skipped\) matched at position q: the end of group 3, or 0
paren_skipped_at(s, q) ==
  LET e3 == digits_end(s, q + 1)
      e4 == digits_end(s, commas_end(s, e3 + 1) + 1)
  IN  IF startswith(s, q, Pat.re_paren) /\ e3 >= q + 1 /\ startswith(s, e4 + 1, Pat.re_skipped)
        THEN e3 ELSE 0

\* re.search(r'Prepared (\d+)[,]*(\d*).*\((\d+)[,]*(\d*) skipped\)', line):
\* groups 1 and 3; the greedy .* stops at the last parenthesis that matches
re_prepared_simple(s) ==
  LET ok(a) == LET b1 == a + Len(Pat.re_Prepared)
               IN  /\ startswith(s, a, Pat.re_Prepared)
                   /\ digits_end(s, b1) >= b1
                   /\ \E q \in (digits_end(s, b1) + 1)..Len(s) : paren_skipped_at(s, q) # 0
      starts == {a \in 1..Len(s) : ok(a)}
      b1 == Min(starts) + Len(Pat.re_Prepared)
      e1 == digits_end(s, b1)
      q  == Max({p \in (e1 + 1)..Len(s) : paren_skipped_at(s, p) # 0})
  IN  IF starts = {} THEN <<>>
      ELSE <<int(s, b1, e1), int(s, q + 1, paren_skipped_at(s, q))>>

\* re.search(r'successful: (\d+).*failed: (\d+)', lines[j]):
\* the greedy .* stops at the last 'failed: ' that a digit follows
re_successful_failed(s) ==
  LET tail(q) == startswith(s, q, Pat.re_failed_colon)
                   /\ digits_end(s, q + Len(Pat.re_failed_colon)) >= q + Len(Pat.re_failed_colon)
      ok(a) == LET b1 == a + Len(Pat.re_successful)
               IN  /\ startswith(s, a, Pat.re_successful)
                   /\ digits_end(s, b1) >= b1
                   /\ \E q \in (b1 + 1)..Len(s) : tail(q)
      starts == {a \in 1..Len(s) : ok(a)}
      b1 == Min(starts) + Len(Pat.re_successful)
      b2 == Max({q \in (b1 + 1)..Len(s) : tail(q)}) + Len(Pat.re_failed_colon)
  IN  IF starts = {} THEN <<>>
      ELSE <<int(s, b1, digits_end(s, b1)), int(s, b2, digits_end(s, b2))>>

\* re.search(r'Total enrollments: (\d+)', line)
re_total_enrollments(s) == search_one(s, Pat.re_Total)

\* re.search(r'Unique users: (\d+)', line)
re_unique_users(s) == search_one(s, Pat.re_Unique_users)

\* re.search(r'Unique courses: (\d+)', line)
re_unique_courses(s) == search_one(s, Pat.re_Unique_courses)

\* re.search(r'Batch (\d+): (\d+) enrollments', line)
re_batch(s) == search_two(s, Pat.re_Batch, Pat.re_colon, Pat.re_enrollments)

\* re.search(r'(\d+) success, (\d+) failed', line)
re_success_failed(s) == search_two(s, <<>>, Pat.re_success_comma, Pat.re_failed)

\* re.search(r'Prepared (\d+) enrollments \((\d+) skipped\)', line)
re_prepared_original(s) ==
  search_two(s, Pat.re_Prepared, Pat.re_enrollments_paren, Pat.re_skipped)


(***************************************************************************)
(* Every test the loop body makes on one line of text: the substring       *)
(* guards (on line.lower() unless noted), the regular expressions (on the  *)
(* line as written), the registry codes the breakdown counts, and          *)
(* line.strip().                                                           *)
(***************************************************************************)
scan(line) ==
  LET line_lower == lower(line)
  IN  [ codes |-> {k \in 1..Len(faculty_codes) :
                     /\ In(faculty_codes[k].chars, line)
                     /\ (In(Pat.SEM, line) \/ In(Pat.course, line_lower))},
        resolved |-> In(Pat.resolved, line_lower),
        users |-> In(Pat.users, line_lower),
        courses |-> In(Pat.courses, line_lower),
        prepared |-> In(Pat.prepared, line_lower),
        enrollments |-> In(Pat.enrollments, line_lower),
        enrollment_complete |-> In(Pat.enrollment_complete, line_lower),
        enrollment_complete_colon |-> In(Pat.enrollment_complete_colon, line_lower),
        successful_colon |-> In(Pat.successful_colon, line_lower),
        failed_colon |-> In(Pat.failed_colon, line_lower),
        total_enrollments |-> In(Pat.total_enrollments, line_lower),
        unique_users |-> In(Pat.unique_users, line_lower),
        unique_courses |-> In(Pat.unique_courses, line_lower),
        batch |-> In(Pat.batch, line_lower),
        success |-> In(Pat.success, line_lower),
        fail |-> In(Pat.fail, line_lower),
        failed |-> In(Pat.failed, line_lower),
        api_call |-> In(Pat.api_call, line_lower),
        check |-> In(Pat.check, line),
        cross |-> In(Pat.cross, line),
        re_resolved_users |-> re_resolved_users(line),
        re_resolved_courses |-> re_resolved_courses(line),
        re_prepared_simple |-> re_prepared_simple(line),
        re_successful_failed |-> re_successful_failed(line),
        re_total_enrollments |-> re_total_enrollments(line),
        re_unique_users |-> re_unique_users(line),
        re_unique_courses |-> re_unique_courses(line),
        re_batch |-> re_batch(line),
        re_success_failed |-> re_success_failed(line),
        re_prepared_original |-> re_prepared_original(line),
        stripped |-> strip(line) ]

\* scan of every line of Text
Scanned == [id \in LineIds |-> scan(Text[id])]


(***************************************************************************)
(* Program constants.                                                      *)
(***************************************************************************)
SampleLen == 50
LookAhead == 5
RecentLen == 30

None == <<>>

\* dict access with a default, and the increment of a counter the code creates at 0
get(d, k) == IF k \in DOMAIN d THEN d[k] ELSE 0

increment(d, k) == [x \in DOMAIN d \cup {k} |-> IF x = k THEN get(d, k) + 1 ELSE d[x]]

\* sum(b['count'] for b in batch_info if b['status'] == status)
RECURSIVE sum_counts(_, _)
sum_counts(batch_info, status) ==
  IF batch_info = <<>> THEN 0
  ELSE (IF Head(batch_info).status = status THEN Head(batch_info).count ELSE 0)
         + sum_counts(Tail(batch_info), status)

\* the metrics dict as parse_log_file creates it
initial_metrics ==
  [ last_run |-> "None",
    total_records |-> 0,
    successful |-> 0,
    errors |-> 0,
    recent_entries |-> <<>>,
    course_not_found |-> 0,
    user_creation_failed |-> 0,
    faculty_breakdown |-> <<>>,
    department_breakdown |-> <<>>,
    api_errors |-> 0,
    batch_info |-> <<>>,
    users_found |-> 0,
    users_missing |-> 0,
    courses_found |-> 0,
    courses_missing |-> 0,
    skipped_records |-> 0,
    log_format |-> "unknown",
    processing_time |-> "None",
    total_batches |-> 0,
    successful_batches |-> 0,
    failed_batches |-> 0 ]

(***************************************************************************)
(* detect_log_format                                                       *)
(***************************************************************************)
\* ' '.join(texts)
RECURSIVE join(_)
join(ls) ==
  IF ls = <<>> THEN <<>>
  ELSE IF Len(ls) = 1 THEN Text[ls[1]]
  ELSE Text[ls[1]] \o Pat.space \o join(Tail(ls))

\* lines[:n]
first(ls, n) == SubSeq(ls, 1, IF Len(ls) < n THEN Len(ls) ELSE n)

\* slip: the sample is the whole file, not its first SampleLen lines
detect_log_format_whole_file(ls) ==
  LET sample == lower(join(ls))
  IN  IF In(Pat.resolved, sample) /\ In(Pat.users, sample) THEN "simple_enroll"
      ELSE IF In(Pat.push_complete, sample) THEN "original_push"
      ELSE IF In(Pat.batch, sample) /\ In(Pat.enrolments, sample) THEN "original_batch"
      ELSE IF In(Pat.prepared, sample) /\ In(Pat.enrollments, sample) THEN "simple_enroll"
      ELSE "unknown"

\* slip: a sample that matches nothing is taken for the batch format
detect_log_format_defaults_to_batch(ls) ==
  LET sample == lower(join(first(ls, SampleLen)))
  IN  IF In(Pat.resolved, sample) /\ In(Pat.users, sample) THEN "simple_enroll"
      ELSE IF In(Pat.push_complete, sample) THEN "original_push"
      ELSE IF In(Pat.prepared, sample) /\ In(Pat.enrollments, sample) THEN "simple_enroll"
      ELSE "original_batch"

detect_log_format(ls) ==
  LET sample == lower(join(first(ls, SampleLen)))
  IN  IF In(Pat.resolved, sample) /\ In(Pat.users, sample) THEN "simple_enroll"
      ELSE IF In(Pat.push_complete, sample) THEN "original_push"
      ELSE IF In(Pat.batch, sample) /\ In(Pat.enrolments, sample) THEN "original_batch"
      ELSE IF In(Pat.prepared, sample) /\ In(Pat.enrollments, sample) THEN "simple_enroll"
      ELSE "unknown"

(***************************************************************************)
(* The body of the for loop of parse_log_file.                             *)
(***************************************************************************)
\* slip: the faculty counter is created at 1 and never incremented
RECURSIVE breakdown_faculty_set(_, _, _)
breakdown_faculty_set(m, F, k) ==
  IF k > Len(faculty_codes) THEN m
  ELSE IF k \in F.codes
    THEN breakdown_faculty_set(
           [m EXCEPT !.faculty_breakdown =
                       [x \in DOMAIN @ \cup {faculty_codes[k].faculty} |->
                          IF x = faculty_codes[k].faculty THEN 1 ELSE @[x]],
                     !.department_breakdown = increment(@, faculty_codes[k].code)],
           F, k + 1)
    ELSE breakdown_faculty_set(m, F, k + 1)

\* slip: the loop over the registry stops at the first code the line contains
RECURSIVE breakdown_first_code_only(_, _, _)
breakdown_first_code_only(m, F, k) ==
  IF k > Len(faculty_codes) THEN m
  ELSE IF k \in F.codes
    THEN [m EXCEPT !.faculty_breakdown = increment(@, faculty_codes[k].faculty),
                   !.department_breakdown = increment(@, faculty_codes[k].code)]
    ELSE breakdown_first_code_only(m, F, k + 1)

\* for code, faculty in faculty_codes.items(): from entry k on
RECURSIVE breakdown(_, _, _)
breakdown(m, F, k) ==
  IF k > Len(faculty_codes) THEN m
  ELSE IF k \in F.codes
    THEN breakdown(
           [m EXCEPT !.faculty_breakdown = increment(@, faculty_codes[k].faculty),
                     !.department_breakdown = increment(@, faculty_codes[k].code)],
           F, k + 1)
    ELSE breakdown(m, F, k + 1)

\* slip: the break is taken only when the pattern matched
RECURSIVE look_ahead_past_unparseable(_, _, _, _)
look_ahead_past_unparseable(m, ls, j, last) ==
  IF j > last THEN m
  ELSE IF /\ Scanned[ls[j]].successful_colon /\ Scanned[ls[j]].failed_colon
          /\ Scanned[ls[j]].re_successful_failed # <<>>
    THEN [m EXCEPT !.successful = Scanned[ls[j]].re_successful_failed[1],
                   !.errors = Scanned[ls[j]].re_successful_failed[2]]
    ELSE look_ahead_past_unparseable(m, ls, j + 1, last)

\* for j in range(i, min(i+5, len(lines))): from line j (counted from 1) to line last
RECURSIVE look_ahead(_, _, _, _)
look_ahead(m, ls, j, last) ==
  IF j > last THEN m
  ELSE IF Scanned[ls[j]].successful_colon /\ Scanned[ls[j]].failed_colon
    THEN LET match == Scanned[ls[j]].re_successful_failed
         IN  IF match # <<>>
               THEN [m EXCEPT !.successful = match[1], !.errors = match[2]]
               ELSE m
    ELSE look_ahead(m, ls, j + 1, last)

\* the branch of log_format == 'simple_enroll', on line n (counted from 1)
simple_enroll_rules(m, ls, n) ==
  LET F == Scanned[ls[n]]
  IN  IF F.resolved /\ F.users
        THEN LET match == F.re_resolved_users
             IN  IF match # <<>>
                   THEN [m EXCEPT !.users_found = match[1],
                                  !.users_missing = match[2] - match[1]]
                   ELSE m
      ELSE IF F.resolved /\ F.courses
        THEN LET match == F.re_resolved_courses
             IN  IF match # <<>>
                   THEN [m EXCEPT !.courses_found = match[1],
                                  !.courses_missing = match[2] - match[1]]
                   ELSE m
      ELSE IF F.prepared /\ F.enrollments
        THEN LET match == F.re_prepared_simple
             IN  IF match # <<>>
                   THEN [m EXCEPT !.total_records = match[1],
                                  !.skipped_records = match[2]]
                   ELSE m
      ELSE IF F.enrollment_complete
        THEN look_ahead(m, ls, n,
                        IF n + LookAhead - 1 < Len(ls) THEN n + LookAhead - 1 ELSE Len(ls))
      ELSE m

\* slip: a total is kept once a line has set it
summary_rules_first_wins(m, F) ==
  LET m1 == IF F.total_enrollments /\ F.re_total_enrollments # <<>> /\ m.total_records = 0
              THEN [m EXCEPT !.total_records = F.re_total_enrollments[1]] ELSE m
      m2 == IF F.unique_users /\ F.re_unique_users # <<>>
              THEN [m1 EXCEPT !.users_found = F.re_unique_users[1]] ELSE m1
  IN  IF F.unique_courses /\ F.re_unique_courses # <<>>
        THEN [m2 EXCEPT !.courses_found = F.re_unique_courses[1]] ELSE m2

\* the three independent ifs that open the else branch
summary_rules(m, F) ==
  LET m1 == IF F.total_enrollments /\ F.re_total_enrollments # <<>>
              THEN [m EXCEPT !.total_records = F.re_total_enrollments[1]] ELSE m
      m2 == IF F.unique_users /\ F.re_unique_users # <<>>
              THEN [m1 EXCEPT !.users_found = F.re_unique_users[1]] ELSE m1
  IN  IF F.unique_courses /\ F.re_unique_courses # <<>>
        THEN [m2 EXCEPT !.courses_found = F.re_unique_courses[1]] ELSE m2

\* slip: a batch still in flight is completed as Failed before the new one opens
open_batch_flushing(m, cb, match) ==
  [ m |-> IF cb # None
            THEN [m EXCEPT !.total_batches = @ + 1,
                           !.batch_info = Append(@, [cb[1] EXCEPT !.status = "Failed"]),
                           !.failed_batches = @ + 1,
                           !.errors = @ + cb[1].count]
            ELSE [m EXCEPT !.total_batches = @ + 1],
    cb |-> <<[batch |-> match[1], count |-> match[2], status |-> "Processing"]>> ]

\* 'Batch i: n enrollments': the new in-flight batch replaces current_batch
open_batch(m, cb, match) ==
  [ m |-> [m EXCEPT !.total_batches = @ + 1],
    cb |-> <<[batch |-> match[1], count |-> match[2], status |-> "Processing"]>> ]

\* slip: the batch stays in flight after it was completed
close_success_keeps_open(m, cb) ==
  LET b == [cb[1] EXCEPT !.status = "Success"]
  IN  [ m |-> [m EXCEPT !.batch_info = Append(@, b),
                        !.successful_batches = @ + 1,
                        !.successful = @ + b.count],
        cb |-> cb ]

\* slip: the completed batch is not counted
close_success_uncounted(m, cb) ==
  LET b == [cb[1] EXCEPT !.status = "Success"]
  IN  [ m |-> [m EXCEPT !.batch_info = Append(@, b),
                        !.successful = @ + b.count],
        cb |-> None ]

\* slip: the batch is appended without its status being set
close_success_still_processing(m, cb) ==
  LET b == cb[1]
  IN  [ m |-> [m EXCEPT !.batch_info = Append(@, b),
                        !.successful_batches = @ + 1,
                        !.successful = @ + b.count],
        cb |-> None ]

\* a success marker while a batch is in flight
close_success(m, cb) ==
  LET b == [cb[1] EXCEPT !.status = "Success"]
  IN  [ m |-> [m EXCEPT !.batch_info = Append(@, b),
                        !.successful_batches = @ + 1,
                        !.successful = @ + b.count],
        cb |-> None ]

\* slip: a failed batch is taken back out of the successes
close_failed_reverts_successful(m, cb) ==
  LET b == [cb[1] EXCEPT !.status = "Failed"]
  IN  [ m |-> [m EXCEPT !.batch_info = Append(@, b),
                        !.failed_batches = @ + 1,
                        !.successful = @ - b.count,
                        !.errors = @ + b.count],
        cb |-> None ]

\* slip: the failure branch copies the success branch's counter
close_failed_counts_successful(m, cb) ==
  LET b == [cb[1] EXCEPT !.status = "Failed"]
  IN  [ m |-> [m EXCEPT !.batch_info = Append(@, b),
                        !.failed_batches = @ + 1,
                        !.successful = @ + b.count],
        cb |-> None ]

\* a failure marker while a batch is in flight
close_failed(m, cb) ==
  LET b == [cb[1] EXCEPT !.status = "Failed"]
  IN  [ m |-> [m EXCEPT !.batch_info = Append(@, b),
                        !.failed_batches = @ + 1,
                        !.errors = @ + b.count],
        cb |-> None ]

\* metrics['api_errors'] += 1
api_error(m) == [m EXCEPT !.api_errors = @ + 1]

\* the if/elif chain of the else branch
batch_rules(m, cb, F) ==
  IF F.batch /\ F.enrollments
    THEN IF F.re_batch # <<>> THEN open_batch(m, cb, F.re_batch) ELSE [m |-> m, cb |-> cb]
  ELSE IF F.success /\ (F.batch \/ F.check)
    THEN IF cb # None THEN close_success(m, cb) ELSE [m |-> m, cb |-> cb]
  ELSE IF F.fail /\ (F.batch \/ F.cross)
    THEN IF cb # None THEN close_failed(m, cb) ELSE [m |-> m, cb |-> cb]
  ELSE IF F.api_call /\ F.failed
    THEN [m |-> api_error(m), cb |-> cb]
  ELSE IF F.enrollment_complete_colon
    THEN LET match == F.re_success_failed
         IN  IF match # <<>>
               THEN [m |-> [m EXCEPT !.successful = match[1], !.errors = match[2]], cb |-> cb]
               ELSE [m |-> m, cb |-> cb]
  ELSE IF F.prepared /\ F.enrollments
    THEN LET match == F.re_prepared_original
         IN  IF match # <<>>
               THEN [m |-> [m EXCEPT !.total_records = match[1],
                                     !.skipped_records = match[2]], cb |-> cb]
               ELSE [m |-> m, cb |-> cb]
  ELSE [m |-> m, cb |-> cb]

\* the else branch, on one line
original_rules(m, cb, F) == batch_rules(summary_rules(m, F), cb, F)

\* slip: the simple_enroll rules are applied whatever the format
parse_line_any_format(m, cb, ls, n) ==
  [m |-> simple_enroll_rules(m, ls, n), cb |-> cb]

\* slip: an unknown format gets no rule set at all
parse_line_unknown_skipped(m, cb, ls, n) ==
  IF m.log_format = "simple_enroll"
    THEN [m |-> simple_enroll_rules(m, ls, n), cb |-> cb]
  ELSE IF m.log_format = "unknown"
    THEN [m |-> m, cb |-> cb]
    ELSE original_rules(m, cb, Scanned[ls[n]])

\* the dispatch on metrics['log_format'], on line n (counted from 1)
parse_line(m, cb, ls, n) ==
  IF m.log_format = "simple_enroll"
    THEN [m |-> simple_enroll_rules(m, ls, n), cb |-> cb]
    ELSE original_rules(m, cb, Scanned[ls[n]])

\* slip: the breakdown is done in the else branch of the dispatch only
loop_body_breakdown_in_else(m, cb, ls, n) ==
  IF m.log_format = "simple_enroll"
    THEN parse_line(m, cb, ls, n)
    ELSE parse_line(breakdown(m, Scanned[ls[n]], 1), cb, ls, n)

\* one iteration of the loop: the breakdown, then the rules
loop_body(m, cb, ls, n) == parse_line(breakdown(m, Scanned[ls[n]], 1), cb, ls, n)

(***************************************************************************)
(* After the loop.                                                         *)
(***************************************************************************)
\* slip: lines[:n] for lines[-n:]
last_counts_from_start(ls, n) == SubSeq(ls, 1, IF Len(ls) > n THEN n ELSE Len(ls))

\* lines[-n:]
last(ls, n) == SubSeq(ls, IF Len(ls) > n THEN Len(ls) - n + 1 ELSE 1, Len(ls))

\* [line.strip() for line in ls if line.strip()]
RECURSIVE stripped_nonblank(_)
stripped_nonblank(ls) ==
  IF ls = <<>> THEN <<>>
  ELSE IF Scanned[Head(ls)].stripped # <<>>
    THEN <<Scanned[Head(ls)].stripped>> \o stripped_nonblank(Tail(ls))
    ELSE stripped_nonblank(Tail(ls))

recent_entries(ls) == stripped_nonblank(last(ls, RecentLen))

\* slip: total_records is derived even when a line has set it
reconcile_total_always(m) ==
  LET m1 == IF m.successful = 0 /\ m.errors = 0
              THEN [m EXCEPT !.successful = sum_counts(m.batch_info, "Success"),
                             !.errors = sum_counts(m.batch_info, "Failed")]
              ELSE m
  IN  [m1 EXCEPT !.total_records = m1.successful + m1.errors + m1.skipped_records]

\* slip: the derived values are added to the fields without the == 0 tests
reconcile_accumulating(m) ==
  LET m1 == [m EXCEPT !.successful = @ + sum_counts(m.batch_info, "Success"),
                      !.errors = @ + sum_counts(m.batch_info, "Failed")]
  IN  [m1 EXCEPT !.total_records = @ + m1.successful + m1.errors + m1.skipped_records]

\* "Calculate derived metrics"
reconcile(m) ==
  LET m1 == IF m.successful = 0 /\ m.errors = 0
              THEN [m EXCEPT !.successful = sum_counts(m.batch_info, "Success"),
                             !.errors = sum_counts(m.batch_info, "Failed")]
              ELSE m
  IN  IF m1.total_records = 0
        THEN [m1 EXCEPT !.total_records = m1.successful + m1.errors + m1.skipped_records]
        ELSE m1


\* the loop from line n on: the metrics when it ends (the test on r.cb has the
\* iteration evaluated before the next one starts)
RECURSIVE pass(_, _, _, _)
pass(m, cb, ls, n) ==
  IF n > Len(ls) THEN m
  ELSE LET r == loop_body(m, cb, ls, n)
       IN  IF r.cb = None THEN pass(r.m, None, ls, n + 1)
                          ELSE pass(r.m, r.cb, ls, n + 1)

\* the body of the try block for the lines ls, had the format been detected as fmt
parse_as(ls, fmt) ==
  LET m == pass([initial_metrics EXCEPT !.last_run = "mtime", !.log_format = fmt],
                None, ls, 1)
  IN  reconcile([m EXCEPT !.recent_entries = recent_entries(ls)])

\* what parse_log_file returns for a file it can read
parse_log_file(ls) == parse_as(ls, detect_log_format(ls))

(***************************************************************************)
(* Log files.                                                              *)
(***************************************************************************)
\* every sequence of at most n lines of the set A
FilesOver(A, n) == UNION {[1..k -> A] : k \in 0..n}

\* n lines of filler
Pad(n) == [k \in 1..n |-> "filler"]

Scenario1 ==
  <<"resolved_users", "resolved_courses", "prepared", "complete_dot", "counts_title">>

Scenario2 == <<"batch1_10", "batch1_ok", "batch2_5", "batch2_failed">>

Scenarios == {Scenario1, Scenario2}

Overwrite == {<<"batch1_3", "batch2_5", "batch1_ok">>, <<"batch1_3", "batch2_5", "batch2_failed">>}

MixedLines ==
  {"prepared", "complete_dot", "counts_lower", "total5", "unique_users", "batch1_10",
   "batch1_ok", "batch2_failed", "summary_0_0", "resolved_courses_3_4", "code_anla"}

\* a prepared line with thousands separators, under either rule set
Commas == {<<"prepared_commas">>, <<"push_complete", "prepared_commas">>}

\* a line that matches a guard and not its pattern, among lines that do
Unparseable ==
  { <<"prepared", "complete_dot", "counts_na", "counts_lower">>,
    <<"batch1_10", "batch_guard_only", "batch1_ok">> }

\* two lines that write the same field, in both orders
LastWins ==
  { <<"prepared", "prepared_commas">>, <<"prepared_commas", "prepared">>,
    <<"push_complete", "prepared", "total5">>, <<"push_complete", "total5", "prepared">>,
    <<"batch1_10", "batch1_ok", "summary_9_1">>, <<"summary_9_1", "batch1_10", "batch1_ok">>,
    <<"summary_9_1", "batch2_5", "batch2_failed">> }

\* a resolution line that reports more found than there are
Inverted == {<<"resolved_users_10_8">>, <<"resolved_users_10_8", "resolved_courses_3_4">>}

MixedFiles ==
  Scenarios \cup Commas \cup Unparseable \cup LastWins \cup Inverted
    \cup FilesOver(MixedLines, MaxLen)

BatchLines ==
  {"batch1_3", "batch2_5", "batch1_10", "batch1_ok", "batch2_failed", "api_failed",
   "api_batch", "batch_both", "summary_9_1", "filler"}

BatchFiles == Scenarios \cup Overwrite \cup FilesOver(BatchLines, MaxLen)

CodeLines == {"code_anla", "code_two", "code_course", "code_noguard", "batch1_10", "filler"}

CodeFiles == FilesOver(CodeLines, MaxLen)

DetectLines == {"resolved_users", "push_complete", "enrolments", "prepared", "batch1_10"}

\* short files, and files whose last lines lie around line SampleLen
PadLens == {0} \cup {n \in 0..MaxPad : n >= SampleLen - 2}

DetectFiles ==
  {h \o Pad(n) \o t : h \in FilesOver(DetectLines, 1), n \in PadLens,
                       t \in FilesOver(DetectLines, MaxTail)}

RecentLines == {"indented", "blank", "batch1_10", "filler"}

\* short files, and files whose length lies around RecentLen
RecentPadLens == {0} \cup {n \in 0..MaxRecentPad : n >= RecentLen - 2}

RecentFiles ==
  {h \o Pad(n) \o t : h \in FilesOver(RecentLines, 1), n \in RecentPadLens,
                       t \in FilesOver(RecentLines, MaxTail)}

LookLines == {"counts_lower", "counts_na", "complete_dot", "filler"}

\* simple_enroll files: a prepared line, with or without a completion line, a gap of
\* filler and a tail
LookFiles ==
  {h \o c \o Pad(n) \o t :
     h \in {<<"prepared">>, <<"prepared", "counts_lower">>},
     c \in {<<>>, <<"complete_dot">>},
     n \in 0..MaxGap,
     t \in FilesOver(LookLines, MaxLookTail)}

(***************************************************************************)
(* The state machine.                                                      *)
(***************************************************************************)
Init ==
  /\ file_state \in {"ok", "missing", "unreadable"}
  /\ pc = "start"
  /\ lines = <<>>
  /\ i = 0
  /\ metrics = initial_metrics
  /\ current_batch = None
  /\ result = "none"
  /\ argv = <<>>
  /\ upc = "idle"
  /\ stdout = <<>>
  /\ captured = <<>>
  /\ success = "none"
  /\ child_exit = "none"
  /\ exit_status = "none"

\* EnrollmentMonitor.generate_dashboard up to its call of parse_log_file
generate_dashboard ==
  /\ pc = "start"
  /\ IF file_state = "missing"
       THEN pc' = "done" /\ result' = "failure"
       ELSE pc' = "parse" /\ result' = result
  /\ UNCHANGED <<file_state, lines, i, metrics, current_batch>>
  /\ UNCHANGED uvars

\* CombinedDashboard.generate_combined_dashboard up to its call of parse_log_file
generate_combined_dashboard ==
  /\ pc = "start"
  /\ pc' = "parse"
  /\ UNCHANGED <<file_state, lines, i, metrics, current_batch, result>>
  /\ UNCHANGED uvars

\* stat() or open() raises: the except clause prints and the metrics are returned
parse_fails ==
  /\ pc = "parse"
  /\ file_state # "ok"
  /\ metrics' = IF file_state = "unreadable"
                  THEN [metrics EXCEPT !.last_run = "mtime"]
                  ELSE metrics
  /\ pc' = "done"
  /\ result' = "snapshot"
  /\ UNCHANGED <<file_state, lines, i, current_batch>>
  /\ UNCHANGED uvars

\* the file is read and its format detected
read_and_detect(Files) ==
  /\ pc = "parse"
  /\ file_state = "ok"
  /\ \E f \in Files :
       /\ lines' = f
       /\ metrics' = [metrics EXCEPT !.last_run = "mtime",
                                     !.log_format = detect_log_format(f)]
  /\ current_batch' = None
  /\ i' = 0
  /\ pc' = "loop"
  /\ UNCHANGED <<file_state, result>>
  /\ UNCHANGED uvars

\* one iteration of for i, line in enumerate(lines)
process_line ==
  /\ pc = "loop"
  /\ i < Len(lines)
  /\ LET r == loop_body(metrics, current_batch, lines, i + 1)
     IN  metrics' = r.m /\ current_batch' = r.cb
  /\ i' = i + 1
  /\ UNCHANGED <<file_state, pc, lines, result>>
  /\ UNCHANGED uvars

\* after the loop: recent entries, derived metrics, return metrics
finish ==
  /\ pc = "loop"
  /\ i = Len(lines)
  /\ metrics' = reconcile([metrics EXCEPT !.recent_entries = recent_entries(lines)])
  /\ pc' = "done"
  /\ result' = "snapshot"
  /\ UNCHANGED <<file_state, lines, i, current_batch>>
  /\ UNCHANGED uvars

NextOver(Files) ==
  \/ generate_dashboard
  \/ generate_combined_dashboard
  \/ parse_fails
  \/ read_and_detect(Files)
  \/ process_line
  \/ finish

Next == NextOver(MixedFiles)

Spec == Init /\ [][Next]_vars

NextBatch == NextOver(BatchFiles)

SpecBatch == Init /\ [][NextBatch]_vars

NextCodes == NextOver(CodeFiles)

SpecCodes == Init /\ [][NextCodes]_vars

NextDetect == NextOver(DetectFiles)

SpecDetect == Init /\ [][NextDetect]_vars

NextRecent == NextOver(RecentFiles)

SpecRecent == Init /\ [][NextRecent]_vars

NextLook == NextOver(LookFiles)

SpecLook == Init /\ [][NextLook]_vars

(***************************************************************************)
(* update_monitor.py and the deploy_monitor.py it runs.                    *)
(* run_command runs a script or a git command and waits for it; what the   *)
(* command does is the environment's choice: a command exits with status 0 *)
(* or not, a path exists or not.                                           *)
(***************************************************************************)
\* the command lines of update_monitor.py
Arguments == {<<>>, <<"update">>, <<"setup">>, <<"setup", "repo-url">>}

\* what os.chdir(site_path) finds
SitePaths == {"missing", "directory", "not_directory"}

InitUpdate ==
  /\ file_state = "ok"
  /\ pc = "start"
  /\ lines = <<>>
  /\ i = 0
  /\ metrics = initial_metrics
  /\ current_batch = None
  /\ result = "none"
  /\ argv \in Arguments
  /\ upc = "start"
  /\ stdout = <<>>
  /\ captured = <<>>
  /\ success = "none"
  /\ child_exit = "none"
  /\ exit_status = "none"

\* update_monitor.main, up to the first command it runs
update_monitor_main ==
  /\ upc = "start"
  /\ IF Len(argv) > 0 /\ argv[1] = "setup"
       THEN IF Len(argv) < 2
              THEN /\ stdout' = Append(stdout, "Usage: python update_monitor.py setup <github-repo-url>")
                   /\ upc' = "exited"
                   /\ exit_status' = 0
              ELSE /\ stdout' = Append(stdout, "Setting up monitor...")
                   /\ upc' = "setup_github_repo"
                   /\ exit_status' = exit_status
       ELSE /\ stdout' = Append(stdout, "Generating dashboard...")
            /\ upc' = "generate"
            /\ exit_status' = exit_status
  /\ UNCHANGED <<argv, captured, success, child_exit>>
  /\ UNCHANGED pvars

\* update_monitor: run_command("python enrollment_monitor.py"), whose main ends in
\* exit(1) when generate_dashboard returns False
update_monitor_generate ==
  /\ upc = "generate"
  /\ \E status \in {0, 1} :
       IF status = 0
         THEN /\ stdout' = Append(stdout, "Pushing to GitHub...")
              /\ upc' = "update_and_push"
              /\ exit_status' = exit_status
         ELSE /\ stdout' = stdout \o <<"Command failed: python enrollment_monitor.py",
                                       "Failed to generate dashboard">>
              /\ upc' = "exited"
              /\ exit_status' = 1
  /\ UNCHANGED <<argv, captured, success, child_exit>>
  /\ UNCHANGED pvars

\* deploy_monitor.update_and_push: the site directory
update_and_push_site ==
  /\ upc = "update_and_push"
  /\ \E site \in SitePaths :
       CASE site = "missing" ->
              /\ captured' = Append(captured, "Site directory monitoring_site does not exist!")
              /\ success' = "False"
              /\ upc' = "deploy_update_end"
              /\ child_exit' = child_exit
         [] site = "not_directory" ->
              /\ captured' = captured
              /\ success' = success
              /\ upc' = "update_returned"
              /\ child_exit' = 1
         [] site = "directory" ->
              /\ captured' = captured
              /\ success' = success
              /\ upc' = "git_add"
              /\ child_exit' = child_exit
  /\ UNCHANGED <<argv, stdout, exit_status>>
  /\ UNCHANGED pvars

\* a git command of deploy_monitor whose failure makes the caller return False
git_step(at, command, next, end) ==
  /\ upc = at
  /\ \E ok \in BOOLEAN :
       IF ok
         THEN /\ upc' = next
              /\ captured' = captured
              /\ success' = IF next = end THEN "True" ELSE success
         ELSE /\ upc' = end
              /\ captured' = Append(captured, command)
              /\ success' = "False"
  /\ UNCHANGED <<argv, stdout, child_exit, exit_status>>
  /\ UNCHANGED pvars

update_and_push_add ==
  git_step("git_add", "Command failed: git add .", "git_status", "deploy_update_end")

\* git status --porcelain: only its output is looked at, stdout or stderr
update_and_push_status ==
  /\ upc = "git_status"
  /\ \E ok \in BOOLEAN, output \in {"", "text"} :
       LET printed == IF ok THEN captured
                            ELSE Append(captured, "Command failed: git status --porcelain")
       IN  IF output = ""
             THEN /\ captured' = Append(printed, "No changes to commit")
                  /\ success' = "True"
                  /\ upc' = "deploy_update_end"
             ELSE /\ captured' = printed
                  /\ success' = success
                  /\ upc' = "git_commit"
  /\ UNCHANGED <<argv, stdout, child_exit, exit_status>>
  /\ UNCHANGED pvars

update_and_push_commit ==
  git_step("git_commit", "Command failed: git commit", "git_push", "deploy_update_end")

update_and_push_push ==
  git_step("git_push", "Command failed: git push", "deploy_update_end", "deploy_update_end")

\* deploy_monitor.main after update_and_push: a message, and the script ends
deploy_main_update ==
  /\ upc = "deploy_update_end"
  /\ captured' = Append(captured, IF success = "True" THEN "Dashboard updated and pushed successfully!"
                                             ELSE "Failed to update and push dashboard")
  /\ child_exit' = 0
  /\ upc' = "update_returned"
  /\ UNCHANGED <<argv, stdout, success, exit_status>>
  /\ UNCHANGED pvars

\* update_monitor after run_command("python deploy_monitor.py update"), and main
update_monitor_pushed ==
  /\ upc = "update_returned"
  /\ IF child_exit = 0
       THEN /\ stdout' = Append(stdout, "Monitor updated successfully!")
            /\ exit_status' = 0
       ELSE /\ stdout' = stdout \o <<"Command failed: python deploy_monitor.py update",
                                     "Failed to push to GitHub">>
            /\ exit_status' = 1
  /\ upc' = "exited"
  /\ UNCHANGED <<argv, captured, success, child_exit>>
  /\ UNCHANGED pvars

\* deploy_monitor.setup_github_repo: the site directory and its .git
setup_github_repo_site ==
  /\ upc = "setup_github_repo"
  /\ \E site \in SitePaths, git_dir \in BOOLEAN :
       CASE site = "missing" ->
              /\ captured' = Append(captured, "Site directory monitoring_site does not exist!")
              /\ success' = "False"
              /\ upc' = "deploy_setup_end"
              /\ child_exit' = child_exit
         [] site = "not_directory" ->
              /\ captured' = captured
              /\ success' = success
              /\ upc' = "setup_returned"
              /\ child_exit' = 1
         [] site = "directory" ->
              /\ captured' = IF git_dir THEN captured
                                        ELSE Append(captured, "Initializing git repository...")
              /\ success' = success
              /\ upc' = IF git_dir THEN "git_remote" ELSE "git_init"
              /\ child_exit' = child_exit
  /\ UNCHANGED <<argv, stdout, exit_status>>
  /\ UNCHANGED pvars

setup_github_repo_init ==
  git_step("git_init", "Command failed: git init", "setup_add", "deploy_setup_end")

setup_github_repo_add ==
  git_step("setup_add", "Command failed: git add .", "setup_commit", "deploy_setup_end")

setup_github_repo_commit ==
  git_step("setup_commit", "Command failed: git commit", "git_remote", "deploy_setup_end")

\* git remote -v: only its output is looked at, stdout or stderr
setup_github_repo_remote ==
  /\ upc = "git_remote"
  /\ \E ok \in BOOLEAN, origin \in BOOLEAN :
       LET printed == IF ok THEN captured
                            ELSE Append(captured, "Command failed: git remote -v")
       IN  IF ~origin
             THEN /\ captured' = Append(printed, "Adding remote origin: repo-url")
                  /\ upc' = "remote_add"
             ELSE /\ captured' = printed \o <<"Remote origin already exists",
                                              "Pushing to GitHub...">>
                  /\ upc' = "push_main"
  /\ UNCHANGED <<argv, stdout, success, child_exit, exit_status>>
  /\ UNCHANGED pvars

setup_github_repo_remote_add ==
  /\ upc = "remote_add"
  /\ \E ok \in BOOLEAN :
       IF ok
         THEN /\ upc' = "push_main"
              /\ captured' = Append(captured, "Pushing to GitHub...")
              /\ success' = success
         ELSE /\ upc' = "deploy_setup_end"
              /\ captured' = Append(captured, "Command failed: git remote add origin repo-url")
              /\ success' = "False"
  /\ UNCHANGED <<argv, stdout, child_exit, exit_status>>
  /\ UNCHANGED pvars

\* git push -u origin main, and master when that fails
setup_github_repo_push_main ==
  /\ upc = "push_main"
  /\ \E ok \in BOOLEAN :
       IF ok
         THEN /\ upc' = "deploy_setup_end"
              /\ captured' = captured
              /\ success' = "True"
         ELSE /\ upc' = "push_master"
              /\ captured' = Append(captured, "Command failed: git push -u origin main")
              /\ success' = success
  /\ UNCHANGED <<argv, stdout, child_exit, exit_status>>
  /\ UNCHANGED pvars

setup_github_repo_push_master ==
  git_step("push_master", "Command failed: git push -u origin master",
           "deploy_setup_end", "deploy_setup_end")

\* deploy_monitor.main after setup_github_repo: a message, and the script ends
deploy_main_setup ==
  /\ upc = "deploy_setup_end"
  /\ captured' = Append(captured, IF success = "True" THEN "GitHub repo setup completed successfully!"
                                             ELSE "Failed to setup GitHub repo")
  /\ child_exit' = 0
  /\ upc' = "setup_returned"
  /\ UNCHANGED <<argv, stdout, success, exit_status>>
  /\ UNCHANGED pvars

\* update_monitor.main after run_command("python deploy_monitor.py setup ...")
update_monitor_setup_done ==
  /\ upc = "setup_returned"
  /\ stdout' = IF child_exit = 0
                 THEN Append(stdout, "Setup completed!")
                 ELSE stdout \o <<"Command failed: python deploy_monitor.py setup repo-url",
                                  "Setup failed">>
  /\ exit_status' = 0
  /\ upc' = "exited"
  /\ UNCHANGED <<argv, captured, success, child_exit>>
  /\ UNCHANGED pvars

NextUpdate ==
  \/ update_monitor_main
  \/ update_monitor_generate
  \/ update_and_push_site
  \/ update_and_push_add
  \/ update_and_push_status
  \/ update_and_push_commit
  \/ update_and_push_push
  \/ deploy_main_update
  \/ update_monitor_pushed
  \/ setup_github_repo_site
  \/ setup_github_repo_init
  \/ setup_github_repo_add
  \/ setup_github_repo_commit
  \/ setup_github_repo_remote
  \/ setup_github_repo_remote_add
  \/ setup_github_repo_push_main
  \/ setup_github_repo_push_master
  \/ deploy_main_setup
  \/ update_monitor_setup_done

SpecUpdate == InitUpdate /\ [][NextUpdate]_vars

\* the call has returned a snapshot of a file it read
returned == pc = "done" /\ result = "snapshot" /\ file_state = "ok"


(***************************************************************************)
(* What the lines of a file are, read off the text alone.                  *)
(***************************************************************************)
\* line k reaches the rule that opens a batch, and the rule matches
opening(k) ==
  Scanned[lines[k]].batch /\ Scanned[lines[k]].enrollments /\ Scanned[lines[k]].re_batch # <<>>

\* line k reaches the success rule or the failure rule of the batch rule set
success_marker(k) ==
  LET F == Scanned[lines[k]]
  IN  ~(F.batch /\ F.enrollments) /\ F.success /\ (F.batch \/ F.check)

failure_marker(k) ==
  LET F == Scanned[lines[k]]
  IN  ~(F.batch /\ F.enrollments) /\ ~success_marker(k) /\ F.fail /\ (F.batch \/ F.cross)

marker(k) == success_marker(k) \/ failure_marker(k)

\* line k is a marker that finds a batch in flight
completes(k) ==
  marker(k) /\ \E o \in 1..(k - 1) : opening(o) /\ \A l \in (o + 1)..(k - 1) : ~marker(l)

\* some line among the first SampleLen contains p when lower-cased
sample_has(p) ==
  \E k \in 1..(IF Len(lines) < SampleLen THEN Len(lines) ELSE SampleLen) :
    In(p, lower(Text[lines[k]]))

\* the number of lines counted for registry entry k
code_lines(k) == Cardinality({n \in 1..Len(lines) : k \in Scanned[lines[n]].codes})

\* the sum of f[x] over the x of S
RECURSIVE sum_over(_, _)
sum_over(S, f) ==
  IF S = {} THEN 0 ELSE LET x == CHOOSE y \in S : TRUE IN f[x] + sum_over(S \ {x}, f)

Faculties == {faculty_codes[k].faculty : k \in 1..Len(faculty_codes)}

codes_of(faculty) == {k \in 1..Len(faculty_codes) : faculty_codes[k].faculty = faculty}

(***************************************************************************)
(* C1                                                                      *)
(***************************************************************************)
\* C1: in the snapshot parse_log_file returns, total_records >= successful + errors,
\* for every file.
C1_TotalCoversOutcomes ==
  (pc = "done" /\ result = "snapshot")
    => metrics.total_records >= metrics.successful + metrics.errors

(***************************************************************************)
(* C2                                                                      *)
(***************************************************************************)
\* C2: scenario 1 (Resolved 8/10 users, Resolved 5/5 courses, Prepared 100 enrollments
\* (2 skipped), Enrollment complete., Successful: 98 Failed: 0) is a simple_enroll file
\* with users 8 found / 2 missing, courses 5 / 0, total 100, skipped 2, successful 98,
\* errors 0; and a count line right after an 'enrollment complete' marker sets
\* successful and errors whatever the capitalisation of its words.
C2_Scenario1 ==
  /\ (pc = "done" /\ lines = Scenario1) =>
       /\ metrics.log_format = "simple_enroll"
       /\ metrics.users_found = 8 /\ metrics.users_missing = 2
       /\ metrics.courses_found = 5 /\ metrics.courses_missing = 0
       /\ metrics.total_records = 100 /\ metrics.skipped_records = 2
       /\ metrics.successful = 98 /\ metrics.errors = 0
  /\ (/\ pc = "done" /\ metrics.log_format = "simple_enroll" /\ Len(lines) >= 2
      /\ lines[Len(lines) - 1] = "complete_dot"
      /\ lines[Len(lines)] \in {"counts_title", "counts_lower"}) =>
       metrics.successful = 98 /\ metrics.errors = 0

(***************************************************************************)
(* C3                                                                      *)
(***************************************************************************)
\* C3: scenario 2 (Batch 1: 10 enrollments, Batch 1 success, Batch 2: 5 enrollments,
\* Batch 2 failed, no summary line) returns two completed batches in order, batch 1
\* Success with count 10 and batch 2 Failed with count 5, and successful = 10,
\* errors = 5, total_records = 15.
C3_Scenario2 ==
  (pc = "done" /\ lines = Scenario2) =>
    /\ metrics.batch_info = <<[batch |-> 1, count |-> 10, status |-> "Success"],
                              [batch |-> 2, count |-> 5, status |-> "Failed"]>>
    /\ metrics.successful = 10
    /\ metrics.errors = 5
    /\ metrics.total_records = 15

C3_Witness == pc = "done" /\ result = "snapshot" /\ lines = Scenario2

(***************************************************************************)
(* C4                                                                      *)
(***************************************************************************)
\* C4: an opening line processed while a batch is in flight replaces that batch: the
\* replaced batch is not appended to batch_info and adds nothing to successful or
\* errors, so batch_info holds one entry per marker that finds a batch in flight, each
\* for the batch opened last before it; Batch 1: 3 enrollments, Batch 2: 5 enrollments
\* and one marker return the single entry of batch 2 with count 5.
C4_Overwrite ==
  /\ (pc \in {"loop", "done"} /\ metrics.log_format # "simple_enroll") =>
       LET done == {k \in 1..i : completes(k)}
           opened(k) == Scanned[lines[Max({o \in 1..(k - 1) : opening(o)})]].re_batch
           nth(n) == CHOOSE k \in done : Cardinality({x \in done : x < k}) = n - 1
       IN  /\ Len(metrics.batch_info) = Cardinality(done)
           /\ \A n \in 1..Len(metrics.batch_info) :
                /\ metrics.batch_info[n].batch = opened(nth(n))[1]
                /\ metrics.batch_info[n].count = opened(nth(n))[2]
           /\ (~\E k \in 1..i : Scanned[lines[k]].enrollment_complete_colon) =>
                metrics.successful + metrics.errors
                  = sum_over(done, [k \in done |-> opened(k)[2]])
  /\ (pc = "done" /\ lines \in Overwrite) =>
       /\ Len(metrics.batch_info) = 1
       /\ metrics.batch_info[1].batch = 2
       /\ metrics.batch_info[1].count = 5
       /\ metrics.successful + metrics.errors = 5

C4_Witness ==
  pc = "done" /\ lines = <<"batch1_3", "batch2_5", "batch1_ok">> /\ metrics.successful = 5


(***************************************************************************)
(* C5                                                                      *)
(***************************************************************************)
\* C5: the detected format is decided by the first 50 lines alone, by the first rule
\* that applies: 'resolved' and 'users' -> simple_enroll; 'push complete:' ->
\* original_push; 'batch' and 'enrolments' -> original_batch; 'prepared' and
\* 'enrollments' -> simple_enroll; otherwise unknown.
C5_DetectChain ==
  (pc = "loop" /\ i = 0) =>
    metrics.log_format =
      IF sample_has(Pat.resolved) /\ sample_has(Pat.users) THEN "simple_enroll"
      ELSE IF sample_has(Pat.push_complete) THEN "original_push"
      ELSE IF sample_has(Pat.batch) /\ sample_has(Pat.enrolments) THEN "original_batch"
      ELSE IF sample_has(Pat.prepared) /\ sample_has(Pat.enrollments) THEN "simple_enroll"
      ELSE "unknown"

\* the only marker of the file is on line 51
C5_Witness ==
  /\ pc = "loop" /\ i = 0
  /\ lines = Pad(SampleLen) \o <<"resolved_users">>
  /\ metrics.log_format = "unknown"

(***************************************************************************)
(* C6                                                                      *)
(***************************************************************************)
\* C6: at every point of the pass, the count of each faculty is the sum of the counts
\* of the codes of that faculty, and a faculty has a count exactly when one of its
\* codes has.
C6_BreakdownSymmetry ==
  /\ \A f \in Faculties :
       get(metrics.faculty_breakdown, f)
         = sum_over(codes_of(f),
                    [k \in codes_of(f) |-> get(metrics.department_breakdown, faculty_codes[k].code)])
  /\ DOMAIN metrics.faculty_breakdown
       = {faculty_codes[k].faculty :
            k \in {c \in 1..Len(faculty_codes) :
                     faculty_codes[c].code \in DOMAIN metrics.department_breakdown}}

\* two codes of one faculty have been counted, one of them twice
C6_Witness ==
  /\ get(metrics.department_breakdown, "ANLA") = 2
  /\ get(metrics.department_breakdown, "CADR") = 1
  /\ get(metrics.faculty_breakdown, "Faculty of Arts and Design") = 3

(***************************************************************************)
(* C7                                                                      *)
(***************************************************************************)
\* C7: the derivation of successful, errors and total_records, applied again to the
\* snapshot parse_log_file returns, changes no field.
C7_ReconcileIdempotent ==
  (pc = "done" /\ result = "snapshot") => reconcile(metrics) = metrics

\* a summary line reset both counts to zero and they were derived from the batches
C7_Witness ==
  /\ pc = "done"
  /\ lines = <<"batch1_10", "batch1_ok", "summary_0_0">>
  /\ metrics.successful = 10
  /\ metrics.total_records = 10

(***************************************************************************)
(* C8                                                                      *)
(***************************************************************************)
\* C8: a file that is missing or cannot be read ends in a reported failure and in no
\* snapshot.
C8_FailurePropagates ==
  (pc = "done" /\ file_state # "ok") => result = "failure"

(***************************************************************************)
(* C9                                                                      *)
(***************************************************************************)
\* C9 as stated: outside simple_enroll files the four resolution counts are zero.
C9_ResolutionOnlyInFormatA ==
  (pc = "done" /\ result = "snapshot" /\ metrics.log_format # "simple_enroll") =>
    /\ metrics.users_found = 0 /\ metrics.users_missing = 0
    /\ metrics.courses_found = 0 /\ metrics.courses_missing = 0

\* C9 as amended: outside simple_enroll files users_missing and courses_missing are
\* zero, and users_found and courses_found are non-zero only once a line
\* 'Unique users: N' or 'Unique courses: N' has been processed.
C9_MissingOnlyInFormatA ==
  metrics.log_format # "simple_enroll" =>
    /\ metrics.users_missing = 0
    /\ metrics.courses_missing = 0
    /\ metrics.users_found # 0 =>
         \E k \in 1..i : Scanned[lines[k]].re_unique_users = <<metrics.users_found>>
    /\ metrics.courses_found # 0 =>
         \E k \in 1..i : Scanned[lines[k]].re_unique_courses = <<metrics.courses_found>>

C9_Witness ==
  /\ pc = "done" /\ result = "snapshot"
  /\ metrics.log_format = "unknown"
  /\ metrics.users_found = 7

(***************************************************************************)
(* C10                                                                     *)
(***************************************************************************)
\* what C10 says of the breakdowns and the recent lines: they are computed from the
\* lines of the file
C10_Computed ==
  /\ \A k \in 1..Len(faculty_codes) :
       get(metrics.department_breakdown, faculty_codes[k].code) = code_lines(k)
  /\ \A f \in Faculties :
       get(metrics.faculty_breakdown, f)
         = sum_over(codes_of(f), [k \in codes_of(f) |-> code_lines(k)])
  /\ LET kept == {n \in 1..Len(lines) :
                    n > Len(lines) - RecentLen /\ strip(Text[lines[n]]) # <<>>}
         nth(j) == CHOOSE n \in kept : Cardinality({x \in kept : x < n}) = j - 1
     IN  /\ Len(metrics.recent_entries) = Cardinality(kept)
         /\ \A j \in 1..Len(metrics.recent_entries) :
              metrics.recent_entries[j] = strip(Text[lines[nth(j)]])

\* C10 as stated: a file of unknown format returns a snapshot whose resolution counts,
\* batch list, api_errors and outcome counts are zero or empty, with the breakdowns and
\* the recent lines computed.
C10_UnknownAllZero ==
  (pc = "done" /\ file_state = "ok" /\ metrics.log_format = "unknown") =>
    /\ result = "snapshot"
    /\ metrics.users_found = 0 /\ metrics.users_missing = 0
    /\ metrics.courses_found = 0 /\ metrics.courses_missing = 0
    /\ metrics.batch_info = <<>>
    /\ metrics.api_errors = 0
    /\ metrics.successful = 0 /\ metrics.errors = 0 /\ metrics.total_records = 0
    /\ C10_Computed

\* C10 as amended: a file of unknown format returns a snapshot, its lines having gone
\* through the rule set of every format other than simple_enroll: users_missing and
\* courses_missing are zero, total_batches counts the opening lines and batch_info has
\* one entry per marker that found a batch in flight; the breakdowns and the recent
\* lines are computed.
C10_UnknownUsesBatchRules ==
  (pc = "done" /\ file_state = "ok" /\ metrics.log_format = "unknown") =>
    /\ result = "snapshot"
    /\ metrics.users_missing = 0
    /\ metrics.courses_missing = 0
    /\ metrics.total_batches = Cardinality({k \in 1..Len(lines) : opening(k)})
    /\ Len(metrics.batch_info) = Cardinality({k \in 1..Len(lines) : completes(k)})
    /\ C10_Computed

C10_Witness ==
  /\ pc = "done" /\ file_state = "ok" /\ result = "snapshot"
  /\ metrics.log_format = "unknown"
  /\ Len(metrics.batch_info) = 1
  /\ get(metrics.department_breakdown, "ANLA") = 1


(***************************************************************************)
(* C11                                                                     *)
(***************************************************************************)
\* line k contains 'api call' and 'failed' when lower-cased
api_marker(k) == Scanned[lines[k]].api_call /\ Scanned[lines[k]].failed

\* the step is the loop's iteration on line i + 1 under the batch rule set
batch_step ==
  pc = "loop" /\ i < Len(lines) /\ i' = i + 1 /\ metrics.log_format # "simple_enroll"

\* C11: under the batch rule set every API-failure marker line adds one to
\* api_errors, and adds one to errors unless the failure rule counted the line.
C11_ApiMarkerCounted ==
  [][ (batch_step /\ api_marker(i + 1))
        => /\ metrics'.api_errors = metrics.api_errors + 1
           /\ \/ metrics'.errors = metrics.errors + 1
              \/ failure_marker(i + 1) /\ current_batch # None ]_vars

(***************************************************************************)
(* C12                                                                     *)
(***************************************************************************)
\* C12: every entry of batch_info has status Success or Failed in every state of the
\* pass and in the snapshot; batch_info changes only by appending the batch in flight
\* with its final status, and current_batch is None after that same step.
C12_CompletedNeverProcessing ==
  /\ [](\A k \in 1..Len(metrics.batch_info) :
          metrics.batch_info[k].status \in {"Success", "Failed"})
  /\ [][ metrics'.batch_info # metrics.batch_info
          => /\ current_batch # None
             /\ current_batch[1].status = "Processing"
             /\ current_batch' = None
             /\ \E s \in {"Success", "Failed"} :
                  metrics'.batch_info =
                    Append(metrics.batch_info, [current_batch[1] EXCEPT !.status = s]) ]_vars

C12_Witness ==
  /\ returned
  /\ Len(metrics.batch_info) = 2
  /\ metrics.batch_info[1].status = "Success"
  /\ metrics.batch_info[2].status = "Failed"
  /\ current_batch = None

(***************************************************************************)
(* C13                                                                     *)
(***************************************************************************)
\* C13: successful, errors and skipped_records are never negative, at any point of
\* the pass and in the snapshot, whatever the file.
C13_CountsNonNegative ==
  /\ metrics.successful >= 0
  /\ metrics.errors >= 0
  /\ metrics.skipped_records >= 0

C13_Witness ==
  /\ returned
  /\ metrics.successful = 98
  /\ metrics.skipped_records = 2
  /\ metrics.errors = 0

(***************************************************************************)
(* C14                                                                     *)
(***************************************************************************)
\* C14: for a file whose prepared line is 'Prepared 1,234 enrollments (1,000 skipped)'
\* the snapshot has total_records = 1234 and skipped_records = 1000.
C14_ThousandsSeparators ==
  (returned /\ lines \in Commas)
    => metrics.total_records = 1234 /\ metrics.skipped_records = 1000

(***************************************************************************)
(* C15                                                                     *)
(***************************************************************************)
\* the lines ls without line k
remove(ls, k) == SubSeq(ls, 1, k - 1) \o SubSeq(ls, k + 1, Len(ls))

\* line k matches the guard of a simple_enroll rule and not the rule's pattern
unparseable_simple(k) ==
  LET F == Scanned[lines[k]]
  IN  IF F.resolved /\ F.users THEN F.re_resolved_users = <<>>
      ELSE IF F.resolved /\ F.courses THEN F.re_resolved_courses = <<>>
      ELSE IF F.prepared /\ F.enrollments THEN F.re_prepared_simple = <<>>
      ELSE IF F.enrollment_complete THEN FALSE
      ELSE F.successful_colon /\ F.failed_colon /\ F.re_successful_failed = <<>>

\* line k matches the guard of a rule of the other rule set and not the rule's
\* pattern, and no rule of the set acts on it
unparseable_original(k) ==
  LET F == Scanned[lines[k]]
      summary_acts == \/ F.total_enrollments /\ F.re_total_enrollments # <<>>
                      \/ F.unique_users /\ F.re_unique_users # <<>>
                      \/ F.unique_courses /\ F.re_unique_courses # <<>>
      summary_guard == F.total_enrollments \/ F.unique_users \/ F.unique_courses
  IN  /\ ~summary_acts
      /\ IF F.batch /\ F.enrollments THEN F.re_batch = <<>>
         ELSE IF F.success /\ (F.batch \/ F.check) THEN FALSE
         ELSE IF F.fail /\ (F.batch \/ F.cross) THEN FALSE
         ELSE IF F.api_call /\ F.failed THEN FALSE
         ELSE IF F.enrollment_complete_colon THEN F.re_success_failed = <<>>
         ELSE IF F.prepared /\ F.enrollments THEN F.re_prepared_original = <<>>
         ELSE summary_guard

unparseable(k) ==
  IF metrics.log_format = "simple_enroll" THEN unparseable_simple(k)
                                          ELSE unparseable_original(k)

\* C15: an unparseable line is a no-op: the snapshot of a file is, recent_entries
\* aside, the snapshot the same rule set gives for the file without that line.
C15_UnparseableIsNoOp ==
  returned
    => \A k \in 1..Len(lines) :
         unparseable(k)
           => [metrics EXCEPT !.recent_entries = <<>>]
                = [parse_as(remove(lines, k), metrics.log_format)
                     EXCEPT !.recent_entries = <<>>]

(***************************************************************************)
(* C16                                                                     *)
(***************************************************************************)
\* C16: for a file of zero lines the snapshot has format unknown, every count zero,
\* empty breakdowns, no completed batch and no recent entry.
C16_EmptyInput ==
  (returned /\ lines = <<>>)
    => /\ metrics.log_format = "unknown"
       /\ \A f \in {"total_records", "successful", "errors", "skipped_records",
                    "users_found", "users_missing", "courses_found", "courses_missing",
                    "api_errors", "total_batches", "successful_batches",
                    "failed_batches", "course_not_found", "user_creation_failed"} :
            metrics[f] = 0
       /\ DOMAIN metrics.faculty_breakdown = {}
       /\ DOMAIN metrics.department_breakdown = {}
       /\ metrics.batch_info = <<>>
       /\ metrics.recent_entries = <<>>

C16_Witness ==
  returned /\ lines = <<>> /\ i = 0 /\ metrics.last_run = "mtime"

(***************************************************************************)
(* C17                                                                     *)
(***************************************************************************)
\* line n contains the text of registry entry k and the guard token
guarded_code_line(k, n) ==
  /\ In(faculty_codes[k].chars, Text[lines[n]])
  /\ In(Pat.SEM, Text[lines[n]]) \/ In(Pat.course, lower(Text[lines[n]]))

\* C17: in the snapshot the count of every registry code is the number of lines that
\* contain the code and the guard token, a line with several codes counting for each;
\* a guarded line of one code, twice in the file, gives 2 for the code and 2 for its
\* faculty.
C17_CodeCounts ==
  returned
    => /\ \A k \in 1..Len(faculty_codes) :
            get(metrics.department_breakdown, faculty_codes[k].code)
              = Cardinality({n \in 1..Len(lines) : guarded_code_line(k, n)})
       /\ lines = <<"code_anla", "code_anla">>
            => /\ metrics.department_breakdown = [c \in {"ANLA"} |-> 2]
               /\ metrics.faculty_breakdown = [f \in {"Faculty of Arts and Design"} |-> 2]

C17_Witness ==
  /\ returned
  /\ lines = <<"code_anla", "code_two", "code_anla">>
  /\ get(metrics.department_breakdown, "ANLA") = 3
  /\ get(metrics.department_breakdown, "CADR") = 1

(***************************************************************************)
(* C18                                                                     *)
(***************************************************************************)
\* the values detect_log_format can return
Formats == {"simple_enroll", "original_push", "original_batch", "unknown"}

\* C18: the two breakdowns of the snapshot are the ones the pass would have given
\* for the same lines under every other format.
C18_BreakdownIgnoresFormat ==
  returned
    => \A fmt \in Formats :
         LET other == parse_as(lines, fmt)
         IN  /\ other.faculty_breakdown = metrics.faculty_breakdown
             /\ other.department_breakdown = metrics.department_breakdown

C18_Witness ==
  /\ returned
  /\ metrics.log_format = "simple_enroll"
  /\ lines = <<"prepared", "code_anla", "batch1_10">>
  /\ metrics.department_breakdown = [c \in {"ANLA"} |-> 1]
  /\ parse_as(lines, "unknown").total_batches = 1

(***************************************************************************)
(* C19                                                                     *)
(***************************************************************************)
\* the text of a line without its line terminator
raw(id) == SubSeq(Text[id], 1, Len(Text[id]) - 1)

\* the indices of the last RecentLen lines of the file
recent_indices == {k \in 1..Len(lines) : k > Len(lines) - RecentLen}

\* those of them whose line is more than whitespace
nonblank_indices == {k \in recent_indices : strip(Text[lines[k]]) # <<>>}

\* C19 as stated: recent_entries is the last min(RecentLen, number of lines) raw lines
\* of the file, in file order.
C19_RecentRawLines ==
  returned
    => /\ Len(metrics.recent_entries) = Min({RecentLen, Len(lines)})
       /\ \A k \in recent_indices :
            metrics.recent_entries[k - (Len(lines) - Cardinality(recent_indices))]
              = raw(lines[k])

\* C19: recent_entries holds, in file order, the lines among the last RecentLen of the
\* file that are more than whitespace, each without its leading and trailing
\* whitespace; blank lines leave no entry.
C19_RecentStrippedNonBlank ==
  returned
    => /\ Len(metrics.recent_entries) = Cardinality(nonblank_indices)
       /\ \A k \in nonblank_indices :
            metrics.recent_entries[Cardinality({j \in nonblank_indices : j <= k})]
              = strip(Text[lines[k]])

C19_Witness ==
  /\ returned
  /\ Len(lines) = RecentLen + 2
  /\ lines[1] = "batch1_10"
  /\ lines[Len(lines)] = "indented"
  /\ Len(metrics.recent_entries) = RecentLen
  /\ metrics.recent_entries[RecentLen] = strip(Text["indented"])
  /\ metrics.recent_entries[RecentLen] # raw("indented")

(***************************************************************************)
(* C20                                                                     *)
(***************************************************************************)
\* line k contains 'success' together with 'batch' or the check glyph
has_success_marker(k) ==
  Scanned[lines[k]].success /\ (Scanned[lines[k]].batch \/ Scanned[lines[k]].check)

\* line k contains 'fail' together with 'batch' or the cross glyph
has_failure_marker(k) ==
  Scanned[lines[k]].fail /\ (Scanned[lines[k]].batch \/ Scanned[lines[k]].cross)

\* the step completes the batch in flight with status s and adds its count to field f
closes_as(s, f) ==
  /\ metrics'.batch_info = Append(metrics.batch_info, [current_batch[1] EXCEPT !.status = s])
  /\ metrics'[f] = metrics[f] + current_batch[1].count

\* C20: while a batch is in flight, a line with a success marker closes it as Success
\* and adds its count to successful, a line with a failure marker closes it as Failed
\* and adds its count to errors, and no batch is added to both fields.
C20_MarkersCloseOpenBatch ==
  [][ (batch_step /\ current_batch # None)
        => /\ has_success_marker(i + 1) => closes_as("Success", "successful")
           /\ has_failure_marker(i + 1) => closes_as("Failed", "errors")
           /\ metrics'.batch_info # metrics.batch_info
                => \/ metrics'.successful = metrics.successful
                   \/ metrics'.errors = metrics.errors ]_vars

(***************************************************************************)
(* C21                                                                     *)
(***************************************************************************)
\* the sum of the counts of the completed batches of status s, in metrics
batch_total(s) ==
  LET K == {k \in 1..Len(metrics.batch_info) : metrics.batch_info[k].status = s}
  IN  sum_over(K, [k \in K |-> metrics.batch_info[k].count])

summary_line(k) ==
  LET F == Scanned[lines[k]]
  IN  /\ ~(F.batch /\ F.enrollments)
      /\ ~(F.success /\ (F.batch \/ F.check))
      /\ ~(F.fail /\ (F.batch \/ F.cross))
      /\ ~(F.api_call /\ F.failed)
      /\ F.enrollment_complete_colon
      /\ F.re_success_failed # <<>>

\* line k is a prepared line that the rule set of the detected format reads; the
\* pair it writes to total_records and skipped_records
prepared_pair(k) ==
  LET F == Scanned[lines[k]]
  IN  IF metrics.log_format = "simple_enroll"
        THEN IF ~(F.resolved /\ F.users) /\ ~(F.resolved /\ F.courses)
                  /\ F.prepared /\ F.enrollments
               THEN F.re_prepared_simple ELSE <<>>
        ELSE IF /\ ~(F.batch /\ F.enrollments)
                /\ ~(F.success /\ (F.batch \/ F.check))
                /\ ~(F.fail /\ (F.batch \/ F.cross))
                /\ ~(F.api_call /\ F.failed)
                /\ ~F.enrollment_complete_colon
                /\ F.prepared /\ F.enrollments
               THEN F.re_prepared_original ELSE <<>>

\* line k is a 'Total enrollments: N' line that the batch rule set reads
total_line(k) ==
  /\ metrics.log_format # "simple_enroll"
  /\ Scanned[lines[k]].total_enrollments
  /\ Scanned[lines[k]].re_total_enrollments # <<>>

\* the lines read so far that write total_records, skipped_records, successful/errors
total_writers == {k \in 1..i : prepared_pair(k) # <<>> \/ total_line(k)}

skipped_writers == {k \in 1..i : prepared_pair(k) # <<>>}

summary_writers == {k \in 1..i : metrics.log_format # "simple_enroll" /\ summary_line(k)}

\* what line k of total_writers leaves in total_records
total_written(k) ==
  IF prepared_pair(k) # <<>> THEN prepared_pair(k)[1]
                             ELSE Scanned[lines[k]].re_total_enrollments[1]

\* total_records and skipped_records hold what the last line that writes them wrote
last_total_wins ==
  /\ total_writers # {} => metrics.total_records = total_written(Max(total_writers))
  /\ skipped_writers # {} => metrics.skipped_records = prepared_pair(Max(skipped_writers))[2]

\* the counts of the batches completed with status s by the lines after line k
closed_after(k, s) ==
  LET done == {c \in (k + 1)..i :
                 completes(c) /\ IF s = "Success" THEN success_marker(c) ELSE failure_marker(c)}
      opened(c) == Scanned[lines[Max({o \in 1..(c - 1) : opening(o)})]].re_batch
  IN  sum_over(done, [c \in done |-> opened(c)[2]])

\* C22 as stated: before the derivation each of total_records, skipped_records,
\* successful and errors holds what the last line that writes it wrote; after a line
\* 'enrollment complete: N success, M failed' successful = N and errors = M, whatever
\* batches are completed before or after it.
C22_LastMatchWins ==
  (pc = "loop")
    => /\ last_total_wins
       /\ summary_writers # {}
            => LET match == Scanned[lines[Max(summary_writers)]].re_success_failed
               IN  metrics.successful = match[1] /\ metrics.errors = match[2]

\* C22: before the derivation total_records and skipped_records hold what the last
\* line that writes them wrote; successful and errors hold the N and M of the last
\* 'enrollment complete: N success, M failed' line plus the counts of the batches
\* completed after it as Success and as Failed.
C22_LastSummaryPlusLaterBatches ==
  (pc = "loop")
    => /\ last_total_wins
       /\ summary_writers # {}
            => LET k == Max(summary_writers)
                   match == Scanned[lines[k]].re_success_failed
               IN  /\ metrics.successful = match[1] + closed_after(k, "Success")
                   /\ metrics.errors = match[2] + closed_after(k, "Failed")

C22_Witness ==
  /\ pc = "loop"
  /\ i = Len(lines)
  /\ lines = <<"summary_9_1", "batch2_5", "batch2_failed">>
  /\ metrics.successful = 9
  /\ metrics.errors = 6

(***************************************************************************)
(* C23                                                                     *)
(***************************************************************************)
\* line k is an 'enrollment complete' line that the simple_enroll rule set reads
complete_marker(k) ==
  LET F == Scanned[lines[k]]
  IN  /\ ~(F.resolved /\ F.users) /\ ~(F.resolved /\ F.courses)
      /\ ~(F.prepared /\ F.enrollments)
      /\ F.enrollment_complete

\* the lines from k to k + LookAhead - 1 that contain 'successful:' and 'failed:'
count_lines_from(k) ==
  {j \in k..(k + LookAhead - 1) :
     j <= Len(lines) /\ Scanned[lines[j]].successful_colon /\ Scanned[lines[j]].failed_colon}

\* C23: under the simple_enroll rule set a line changes successful and errors only if
\* it is an 'enrollment complete' line, and then by the first line among it and the
\* LookAhead - 1 lines after it that contains 'successful:' and 'failed:': the two
\* numbers of that line if the pattern matches it, and nothing otherwise; a count line
\* before the marker, further away, or without a marker is never read.
C23_LookAheadWindow ==
  [][ (pc = "loop" /\ i < Len(lines) /\ i' = i + 1 /\ metrics.log_format = "simple_enroll")
        => LET W == count_lines_from(i + 1)
               match == Scanned[lines[Min(W)]].re_successful_failed
           IN  IF complete_marker(i + 1) /\ W # {} /\ match # <<>>
                 THEN metrics'.successful = match[1] /\ metrics'.errors = match[2]
                 ELSE /\ metrics'.successful = metrics.successful
                      /\ metrics'.errors = metrics.errors ]_vars

\* the count line is the last line of the window and is read; the one before the
\* marker was not
C23_Witness ==
  /\ returned
  /\ lines = <<"prepared", "complete_dot", "filler", "filler", "filler", "counts_lower">>
  /\ metrics.successful = 98

\* the count line lies one line beyond the window
C23_WitnessBeyond ==
  /\ returned
  /\ lines = <<"prepared", "counts_lower", "complete_dot", "filler", "filler", "filler",
               "filler", "counts_lower">>
  /\ metrics.successful = 0

(***************************************************************************)
(* C24                                                                     *)
(***************************************************************************)
\* the lines that contain 'push complete:' when lower-cased
push_lines == {k \in 1..Len(lines) : In(Pat.push_complete, lower(Text[lines[k]]))}

\* C24: in the snapshot of a file detected as original_push whose last 'push
\* complete:' line is 'Push complete: 3 successful, 1 failed', successful = 3 and
\* errors = 1.
C24_PushCompleteCounts ==
  (returned /\ metrics.log_format = "original_push" /\ push_lines # {}
     /\ lines[Max(push_lines)] = "push_complete")
    => metrics.successful = 3 /\ metrics.errors = 1

(***************************************************************************)
(* C25                                                                     *)
(***************************************************************************)
\* the file has a 'Batch i: n enrollments' line and its first SampleLen lines are all
\* such lines or batch success and failure markers
batch_style ==
  LET sample == 1..(IF Len(lines) < SampleLen THEN Len(lines) ELSE SampleLen)
  IN  /\ \E k \in sample : opening(k)
      /\ \A k \in sample : opening(k) \/ has_success_marker(k) \/ has_failure_marker(k)

\* C25: a file of batch-style content is detected as original_batch.
C25_BatchStyleIsFormatB ==
  (pc \in {"loop", "done"} /\ file_state = "ok" /\ batch_style)
    => metrics.log_format = "original_batch"

(***************************************************************************)
(* C26                                                                     *)
(***************************************************************************)
\* update_monitor.py has ended after taking the update path
updated == upc = "exited" /\ ~(Len(argv) > 0 /\ argv[1] = "setup")

\* C26: update_monitor.py ends with status 1 whenever the generation failed or
\* update_and_push returned False, it prints 'Monitor updated successfully!' and ends
\* with status 0 only when update_and_push returned True, and it never starts the push
\* after a failed generation.
C26_UpdateFailurePropagates ==
  /\ (updated /\ success = "False") => exit_status = 1
  /\ (updated /\ exit_status = 0)
       => /\ success = "True"
          /\ stdout[Len(stdout)] = "Monitor updated successfully!"
  /\ (updated /\ stdout[Len(stdout)] = "Failed to generate dashboard")
       => /\ exit_status = 1
          /\ success = "none" /\ captured = <<>> /\ child_exit = "none"

(***************************************************************************)
(* C27                                                                     *)
(***************************************************************************)
\* C27: users_missing and courses_missing are never negative in a returned snapshot,
\* whatever the two numbers of the 'Resolved N/M users' and 'Resolved N/M courses'
\* lines.
C27_MissingNonNegative ==
  returned => metrics.users_missing >= 0 /\ metrics.courses_missing >= 0

(***************************************************************************)
(* C28                                                                     *)
(***************************************************************************)
\* C28: under the batch rule set, as long as no 'enrollment complete: N success, M
\* failed' line has been read, successful is the sum of the counts of the batches
\* completed as Success and errors the sum of the counts of those completed as Failed.
C28_CountsAreBatchSums ==
  (pc = "loop" /\ metrics.log_format # "simple_enroll" /\ summary_writers = {})
    => /\ metrics.successful = batch_total("Success")
       /\ metrics.errors = batch_total("Failed")

C28_Witness ==
  /\ pc = "loop"
  /\ i = Len(lines)
  /\ lines = Scenario2
  /\ summary_writers = {}
  /\ metrics.successful = 10
  /\ metrics.errors = 5

(***************************************************************************)
(* C29                                                                     *)
(***************************************************************************)
\* C29: at every point of the pass and in the snapshot, batch_info has
\* successful_batches + failed_batches entries, total_batches is the number of
\* 'Batch i: n enrollments' lines the batch rule set has read, and total_batches is at
\* least successful_batches + failed_batches.
C29_BatchCounters ==
  /\ Len(metrics.batch_info) = metrics.successful_batches + metrics.failed_batches
  /\ metrics.total_batches >= metrics.successful_batches + metrics.failed_batches
  /\ pc \in {"loop", "done"}
       => metrics.total_batches
            = IF metrics.log_format = "simple_enroll" THEN 0
              ELSE Cardinality({k \in 1..i : opening(k)})

\* two batches opened, the first replaced, the second completed
C29_Witness ==
  /\ returned
  /\ metrics.total_batches = 2
  /\ metrics.successful_batches = 1
  /\ metrics.failed_batches = 0
  /\ Len(metrics.batch_info) = 1
  /\ current_batch = None

(***************************************************************************)
(* C30                                                                     *)
(***************************************************************************)
\* C30: a line taken by the success or the failure rule while no batch is in flight
\* leaves successful, errors, batch_info and the three batch counters as they were,
\* and still no batch in flight; so an opening line followed by two markers gives one
\* completed batch, completed by the first marker.
C30_MarkerWithoutBatch ==
  /\ [][ (batch_step /\ current_batch = None /\ marker(i + 1))
          => /\ metrics'.successful = metrics.successful
             /\ metrics'.errors = metrics.errors
             /\ metrics'.batch_info = metrics.batch_info
             /\ metrics'.total_batches = metrics.total_batches
             /\ metrics'.successful_batches = metrics.successful_batches
             /\ metrics'.failed_batches = metrics.failed_batches
             /\ current_batch' = None ]_vars
  /\ []((returned /\ lines = <<"batch1_10", "batch1_ok", "batch2_failed">>)
          => /\ metrics.batch_info = <<[batch |-> 1, count |-> 10, status |-> "Success"]>>
             /\ metrics.successful = 10
             /\ metrics.errors = 0
             /\ metrics.failed_batches = 0)

C30_Witness ==
  /\ returned
  /\ lines = <<"batch1_10", "batch1_ok", "batch2_failed">>
  /\ Len(metrics.batch_info) = 1
  /\ metrics.successful_batches = 1
  /\ metrics.errors = 0

====
